---- MODULE Spec2Model ----
(***************************************************************************)
(* A model of the Sherlog Prometheus agent's backend layer:                *)
(*   - the retry decorator       app/core/retry.py                         *)
(*   - the typed error hierarchy app/core/exceptions.py                    *)
(*   - the backend adapters      app/core/backends/{prometheus,loki,demo}  *)
(* Spec        is one call of a function wrapped by retry_with_backoff.    *)
(* AdapterSpec is a set of concurrent adapter query / query_range calls.   *)
(* ParseSpec   applies the adapters' result formatters to payloads.        *)
(* RegistrySpec builds a backend through ObservabilityBackendFactory and   *)
(*             runs the agent's query tools on it.                         *)
(* PoolSpec    is a set of concurrent calls of one wrapped function.       *)
(* TimeSpec    builds the time parameters of one range query and parses a  *)
(*             log entry's timestamp.                                      *)
(* RouterSpec  is one request to an endpoint of app/routers/prometheus.py. *)
(* MockSpec    is a sequence of calls on the tests' MockMetricsBackend.    *)
(***************************************************************************)
EXTENDS Integers, Sequences, FiniteSets, TLC

VARIABLES
    \* ---- retry wrapper (one call of wrapper(*args, **kwargs)) ----
    policy,          \* the decorator's arguments
    pc,              \* "start" | "calling" | "sleeping" | "done"
    attempt,         \* the for-loop variable
    delay,           \* local variable delay (a rational number of seconds)
    next_delay,      \* local variable next_delay
    last_exception,  \* local variable last_exception
    calls,           \* number of invocations of func started so far
    history,         \* outcome of every completed invocation of func, in order
    sleeps,          \* argument of every asyncio.sleep started, in order
    jitters,         \* every random.uniform(0.8, 1.2) draw, in order
    callbacks,       \* arguments of every on_retry call, in order
    outcome,         \* how the wrapper call ended
    cancelled,       \* None, or where the caller cancelled the call
    \* ---- adapter calls ----
    acall,           \* per call id: the call's state
    sessions,        \* per adapter: number of aiohttp sessions open
    requests,        \* number of HTTP GET requests issued
    base_url,        \* per adapter: its base_url field
    \* ---- result formatting ----
    fmt_in,          \* the adapter and payload handed to the formatter
    fmt_out,         \* what the formatter did with it
    \* ---- backend registry ----
    settings,        \* the settings object of app/config.py
    backend,         \* the ObservabilityBackend the factory built
    created,         \* how create_backend ended
    \* ---- concurrent wrapper calls ----
    rcall,           \* per call id: the locals of one wrapper(*args, **kwargs)
    \* ---- range query times ----
    tq,              \* one range query's instants, parameters and a parsed entry
    \* ---- HTTP router ----
    http,            \* one request to the /api/v1/prometheus router
    \* ---- test double ----
    mock             \* a MockMetricsBackend and the operations applied to it

retryVars   == <<policy, pc, attempt, delay, next_delay, last_exception, calls,
                 history, sleeps, jitters, callbacks, outcome, cancelled>>
adapterVars == <<acall, sessions, requests, base_url>>
parseVars   == <<fmt_in, fmt_out>>
registryVars == <<settings, backend, created>>
poolVars    == <<rcall>>
edgeVars    == <<tq, http, mock>>
vars        == <<retryVars, adapterVars, parseVars, registryVars, poolVars,
                 edgeVars>>

None == "None"
NoOutcome    == [type |-> "none"]
NotCancelled == [at |-> "none"]
NoException  == [kind |-> "None"]
NoBackend    == [class |-> "None"]
NoDelay      == [none |-> TRUE]

(***************************************************************************)
(* Rational arithmetic for delays (seconds), kept in lowest terms.         *)
(***************************************************************************)
RECURSIVE GCD(_, _)
GCD(a, b) == IF b = 0 THEN a ELSE GCD(b, a % b)

Abs(x) == IF x < 0 THEN -x ELSE x

Rat(n, d) ==
    LET g == GCD(Abs(n), d)
    IN  IF n = 0 THEN [n |-> 0, d |-> 1] ELSE [n |-> n \div g, d |-> d \div g]

RMul(x, y) == Rat(x.n * y.n, x.d * y.d)
RLeq(x, y) == x.n * y.d <= y.n * x.d
RLess(x, y) == x.n * y.d < y.n * x.d
RMin(x, y) == IF RLeq(x, y) THEN x ELSE y

(***************************************************************************)
(* The exception classes and Python's isinstance over them.                *)
(***************************************************************************)
\* variant: CancelledError derived from Exception (as before Python 3.8)
ParentCancelIsException(cls) ==
    CASE cls = "CancelledError" -> "Exception"
      [] cls = "Exception"      -> "BaseException"
      [] cls \in {"SherlogError", "RuntimeError"} -> "Exception"
      [] cls \in {"ConfigurationError", "PrometheusError", "RetryError"} -> "SherlogError"
      [] cls \in {"PrometheusConnectionError", "PrometheusQueryError"} -> "PrometheusError"
      [] OTHER -> None

Parent(cls) ==
    CASE cls = "SherlogError"              -> "Exception"
      [] cls = "ConfigurationError"        -> "SherlogError"
      [] cls = "PrometheusError"           -> "SherlogError"
      [] cls = "PrometheusConnectionError" -> "PrometheusError"
      [] cls = "PrometheusQueryError"      -> "PrometheusError"
      [] cls = "RetryError"                -> "SherlogError"
      [] cls = "SlackError"                -> "SherlogError"
      [] cls = "SlackAPIError"             -> "SlackError"
      [] cls = "LLMError"                  -> "SherlogError"
      [] cls = "LLMAPIError"               -> "LLMError"
      [] cls = "ValidationError"           -> "SherlogError"
      [] cls = "RuntimeError"              -> "Exception"
      [] cls = "ValueError"                -> "Exception"
      [] cls = "TypeError"                 -> "Exception"
      [] cls = "KeyError"                  -> "Exception"
      [] cls = "ClientError"               -> "Exception"
      [] cls = "TimeoutError"              -> "Exception"
      [] cls = "Exception"                 -> "BaseException"
      [] cls = "CancelledError"            -> "BaseException"
      [] OTHER                             -> None

RECURSIVE IsSubclass(_, _)
IsSubclass(cls, base) ==
    IF cls = base THEN TRUE
    ELSE IF Parent(cls) = None THEN FALSE
    ELSE IsSubclass(Parent(cls), base)

\* variant: a bare except clause
CatchesAll(exceptions, e) == TRUE

\* except exceptions as e: e is caught when it is an instance of one of them
Catches(exceptions, e) == \E base \in exceptions : IsSubclass(e.kind, base)

(***************************************************************************)
(* Policies: the arguments of retry_with_backoff.                          *)
(***************************************************************************)
MaxRetriesBound == 3

DefaultMaxRetries   == 3
DefaultInitialDelay == Rat(1, 1)
DefaultMaxDelay     == Rat(60, 1)
DefaultBackoff      == Rat(2, 1)
DefaultExceptions   == {"Exception"}

\* (initial_delay, max_delay, backoff_factor) combinations explored
DelayPolicies ==
    { [initial_delay |-> DefaultInitialDelay, max_delay |-> DefaultMaxDelay,
       backoff_factor |-> DefaultBackoff],
      [initial_delay |-> Rat(10, 1), max_delay |-> Rat(30, 1),
       backoff_factor |-> Rat(2, 1)],
      [initial_delay |-> Rat(5, 1), max_delay |-> Rat(3, 1),
       backoff_factor |-> Rat(1, 2)] }

ExceptionChoices ==
    { DefaultExceptions, {"PrometheusConnectionError"} }

Policies ==
    { [max_retries |-> m, initial_delay |-> dp.initial_delay,
       max_delay |-> dp.max_delay, backoff_factor |-> dp.backoff_factor,
       exceptions |-> ex, on_retry |-> cb] :
        m \in -1..MaxRetriesBound, dp \in DelayPolicies,
        ex \in ExceptionChoices, cb \in BOOLEAN }

IsDefaultPolicy(p) ==
    /\ p.max_retries = DefaultMaxRetries
    /\ p.initial_delay = DefaultInitialDelay
    /\ p.max_delay = DefaultMaxDelay
    /\ p.backoff_factor = DefaultBackoff
    /\ p.exceptions = DefaultExceptions

\* random.uniform(0.8, 1.2): the two ends and the middle of the band
JitterDraws == { Rat(4, 5), Rat(1, 1), Rat(6, 5) }

\* the kinds of error the wrapped operation raises
OpErrorKinds == {"PrometheusConnectionError", "PrometheusQueryError", "ConfigurationError"}

FuncName == "fetch_data"

(***************************************************************************)
(* retry_with_backoff.wrapper                                              *)
(***************************************************************************)
RetryInit ==
    /\ policy \in Policies
    /\ pc = "start"
    /\ attempt = 0
    /\ delay = NoDelay
    /\ next_delay = NoDelay
    /\ last_exception = NoException
    /\ calls = 0
    /\ history = <<>>
    /\ sleeps = <<>>
    /\ jitters = <<>>
    /\ callbacks = <<>>
    /\ outcome = NoOutcome
    /\ cancelled = NotCancelled

\* variant: the error raised from the stale last_exception of the previous iteration
RetryErrorStale(e) ==
    [kind      |-> "RetryError",
     operation |-> FuncName,
     attempts  |-> policy.max_retries + 1,
     cause     |-> last_exception,
     status_code |-> 503]

\* raise RetryError(message, operation, attempts, details) from e
RetryErrorOf(e) ==
    [kind      |-> "RetryError",
     operation |-> FuncName,
     attempts  |-> policy.max_retries + 1,
     cause     |-> e,
     status_code |-> 503]

\* variant: the cap forgotten
NextDelayUncapped(d, jitter) == RMul(RMul(d, policy.backoff_factor), jitter)

\* min(delay * backoff_factor * jitter, max_delay)
NextDelay(d, jitter) ==
    RMin(RMul(RMul(d, policy.backoff_factor), jitter), policy.max_delay)

\* variant: range(max_retries)
InRangeShort(a) == a < policy.max_retries

\* for attempt in range(max_retries + 1): is there an iteration number a?
InRange(a) == a < policy.max_retries + 1

\* The head of the for loop at iteration a: invoke func, or fall out of the loop.
LoopHead(a) ==
    IF InRange(a)
    THEN /\ attempt' = a
         /\ calls' = calls + 1
         /\ pc' = "calling"
         /\ outcome' = outcome
    ELSE /\ attempt' = attempt
         /\ calls' = calls
         /\ pc' = "done"
         /\ outcome' = [type |-> "raise", exc |-> [kind |-> "RuntimeError"]]

\* wrapper is called: lines 52-57 up to the first await func(...)
Enter ==
    /\ UNCHANGED <<adapterVars, parseVars, registryVars, poolVars, edgeVars>>
    /\ pc = "start"
    /\ delay' = policy.initial_delay
    /\ last_exception' = NoException
    /\ LoopHead(0)
    /\ UNCHANGED <<policy, next_delay, history, sleeps, jitters, callbacks, cancelled>>

\* variant: the result is stored but the loop goes on to the next iteration
OpReturnsKeepsLooping ==
    /\ UNCHANGED <<adapterVars, parseVars, registryVars, poolVars, edgeVars>>
    /\ pc = "calling"
    /\ history' = Append(history, [type |-> "return", seq |-> calls])
    /\ LoopHead(attempt + 1)
    /\ UNCHANGED <<policy, delay, next_delay, last_exception,
                   sleeps, jitters, callbacks, cancelled>>

\* await func(...) returns: return its value
OpReturns ==
    /\ UNCHANGED <<adapterVars, parseVars, registryVars, poolVars, edgeVars>>
    /\ pc = "calling"
    /\ history' = Append(history, [type |-> "return", seq |-> calls])
    /\ outcome' = [type |-> "return", value |-> [seq |-> calls]]
    /\ pc' = "done"
    /\ UNCHANGED <<policy, attempt, delay, next_delay, last_exception, calls,
                   sleeps, jitters, callbacks, cancelled>>

\* variant: on_retry is called before the attempt == max_retries test
HandlerCallbackOnExhaustion(e) ==
    /\ last_exception' = e
    /\ IF attempt = policy.max_retries
       THEN /\ outcome' = [type |-> "raise", exc |-> RetryErrorOf(e)]
            /\ pc' = "done"
            /\ callbacks' = IF policy.on_retry
                            THEN Append(callbacks, [exc |-> e, attempt |-> attempt])
                            ELSE callbacks
            /\ UNCHANGED <<next_delay, sleeps, jitters>>
       ELSE \E jitter \in JitterDraws :
            /\ jitters' = Append(jitters, jitter)
            /\ next_delay' = NextDelay(delay, jitter)
            /\ callbacks' = IF policy.on_retry
                            THEN Append(callbacks, [exc |-> e, attempt |-> attempt])
                            ELSE callbacks
            /\ sleeps' = Append(sleeps, NextDelay(delay, jitter))
            /\ pc' = "sleeping"
            /\ outcome' = outcome

\* The except clause, lines 58-95, for a caught exception e.
Handler(e) ==
    /\ last_exception' = e
    /\ IF attempt = policy.max_retries
       THEN /\ outcome' = [type |-> "raise", exc |-> RetryErrorOf(e)]
            /\ pc' = "done"
            /\ UNCHANGED <<next_delay, sleeps, jitters, callbacks>>
       ELSE \E jitter \in JitterDraws :
            /\ jitters' = Append(jitters, jitter)
            /\ next_delay' = NextDelay(delay, jitter)
            /\ callbacks' = IF policy.on_retry
                            THEN Append(callbacks, [exc |-> e, attempt |-> attempt])
                            ELSE callbacks
            /\ sleeps' = Append(sleeps, NextDelay(delay, jitter))
            /\ pc' = "sleeping"
            /\ outcome' = outcome

\* await func(...) raises e: the try statement of lines 56-58
FuncRaised(e) ==
    /\ history' = Append(history, [type |-> "raise", exc |-> e])
    /\ IF Catches(policy.exceptions, e)
       THEN Handler(e)
       ELSE /\ outcome' = [type |-> "raise", exc |-> e]
            /\ pc' = "done"
            /\ UNCHANGED <<last_exception, next_delay, sleeps, jitters, callbacks>>
    /\ UNCHANGED <<policy, attempt, delay, calls>>

\* the wrapped operation fails with one of its own errors
OpRaises ==
    /\ UNCHANGED <<adapterVars, parseVars, registryVars, poolVars, edgeVars>>
    /\ pc = "calling"
    /\ \E k \in OpErrorKinds : FuncRaised([kind |-> k, seq |-> calls])
    /\ UNCHANGED cancelled

\* variant: the sleep is awaited again and again
SleepReturnsSleepsAgain ==
    /\ pc = "sleeping"
    /\ UNCHANGED vars

\* variant: delay = next_delay forgotten
SleepReturnsKeepsDelay ==
    /\ UNCHANGED <<adapterVars, parseVars, registryVars, poolVars, edgeVars>>
    /\ pc = "sleeping"
    /\ delay' = delay
    /\ LoopHead(attempt + 1)
    /\ UNCHANGED <<policy, next_delay, last_exception, history, sleeps, jitters,
                   callbacks, cancelled>>

\* await asyncio.sleep(next_delay) returns: line 96 and the next iteration
SleepReturns ==
    /\ UNCHANGED <<adapterVars, parseVars, registryVars, poolVars, edgeVars>>
    /\ pc = "sleeping"
    /\ delay' = next_delay
    /\ LoopHead(attempt + 1)
    /\ UNCHANGED <<policy, next_delay, last_exception, history, sleeps, jitters,
                   callbacks, cancelled>>

\* The caller cancels the task while it is suspended in await func(...):
\* asyncio throws CancelledError into func, which raises it at line 57.
CancelCall ==
    /\ UNCHANGED <<adapterVars, parseVars, registryVars, poolVars, edgeVars>>
    /\ pc = "calling"
    /\ cancelled' = [at |-> "calling", calls |-> calls]
    /\ FuncRaised([kind |-> "CancelledError", seq |-> calls])

\* The caller cancels the task while it is suspended in asyncio.sleep, line 95:
\* CancelledError is raised inside the except block and leaves the wrapper.
CancelSleep ==
    /\ UNCHANGED <<adapterVars, parseVars, registryVars, poolVars, edgeVars>>
    /\ pc = "sleeping"
    /\ cancelled' = [at |-> "sleeping", calls |-> calls]
    /\ outcome' = [type |-> "raise",
                   exc |-> [kind |-> "CancelledError", seq |-> calls]]
    /\ pc' = "done"
    /\ UNCHANGED <<policy, attempt, delay, next_delay, last_exception, calls,
                   history, sleeps, jitters, callbacks>>

(***************************************************************************)
(* JSON payloads and the Python conversions applied to them.               *)
(***************************************************************************)
JNum(n) == [t |-> "num", v |-> n]
JStr(str) == [t |-> "str", v |-> str]
JNull == [t |-> "null"]

IsDict(x) == "t" \notin DOMAIN x

\* dict.get(key, default)
Get(d, key, default) == IF key \in DOMAIN d THEN d[key] ELSE default

Returned(v) == [type |-> "return", value |-> v]
Raises(kind, text) == [type |-> "raise", exc |-> [kind |-> kind, text |-> text]]

NaN == [nan |-> TRUE]

\* the nanosecond strings a log backend sends, with the integer each one denotes
NanoStrings ==
    {"0", "500000000", "1000000000", "1000000600", "1500000000", "2000000000"}
IntOfStr(str) ==
    CASE str = "0"          -> 0
      [] str = "500000000"  -> 500000000
      [] str = "1000000000" -> 1000000000
      [] str = "1000000600" -> 1000000600
      [] str = "1500000000" -> 1500000000
      [] str = "2000000000" -> 2000000000

\* the value strings a backend sends, with the float each one denotes
ValueStrings == {"1", "0.5", "NaN"}
FloatOfStr(str) ==
    CASE str = "1"   -> Rat(1, 1)
      [] str = "0.5" -> Rat(1, 2)
      [] str = "NaN" -> NaN
      [] str \in NanoStrings -> Rat(IntOfStr(str), 1)

\* float(x): the error it raises (None when it raises none), and its value
FloatErr(x) ==
    CASE x.t = "null" -> "TypeError"
      [] x.t = "str" /\ x.v \notin (ValueStrings \cup NanoStrings) -> "ValueError"
      [] OTHER -> None
FloatVal(x) ==
    IF x.t = "str" THEN [t |-> "float", v |-> FloatOfStr(x.v)]
    ELSE [t |-> "float", v |-> Rat(x.v, 1)]

\* the first error raised while a comprehension walks errs, or None
RECURSIVE FirstError(_)
FirstError(errs) ==
    IF errs = <<>> THEN None
    ELSE IF Head(errs) # None THEN Head(errs)
    ELSE FirstError(Tail(errs))

(***************************************************************************)
(* PrometheusBackend.format_result and LokiBackend.format_result           *)
(***************************************************************************)
\* PrometheusBackend._format_vector_result: one entry of formatted_results
FormatVectorItem(result) ==
    LET metric == Get(result, "metric", <<>>)
        value  == Get(result, "value", <<JNull, JNull>>)
    IN  [metric    |-> metric,
         timestamp |-> value[1],
         value     |-> IF value[2] # JNull THEN FloatVal(value[2]) ELSE JNull]

FormatVectorItemErr(result) ==
    LET value == Get(result, "value", <<JNull, JNull>>)
    IN  IF value[2] # JNull THEN FloatErr(value[2]) ELSE None

\* variant: every vector entry formatted with the matrix entry's shape
FormatVectorResultAsMatrix(results) ==
    Returned([type |-> "matrix",
              results |-> [i \in 1..Len(results) |->
                              [metric |-> Get(results[i], "metric", <<>>),
                               values |-> <<>>]]])

FormatVectorResult(results) ==
    LET err == FirstError([i \in 1..Len(results) |-> FormatVectorItemErr(results[i])])
    IN  IF err # None THEN Raises(err, "float")
        ELSE Returned([type |-> "vector",
                       results |-> [i \in 1..Len(results) |-> FormatVectorItem(results[i])]])

\* _format_matrix_result: one entry of formatted_values
FormatSample(value) == [timestamp |-> value[1], value |-> FloatVal(value[2])]
FormatSampleErr(value) == FloatErr(value[2])

FormatMatrixItemLatestOnly(result) ==
    [metric |-> Get(result, "metric", <<>>),
     values |-> LET values == Get(result, "values", <<>>)
                IN  IF values = <<>> THEN <<>>
                    ELSE << FormatSample(values[Len(values)]) >>]
FormatMatrixItem(result) ==
    [metric |-> Get(result, "metric", <<>>),
     values |-> LET values == Get(result, "values", <<>>)
                IN  [i \in 1..Len(values) |-> FormatSample(values[i])]]
FormatMatrixItemErr(result) ==
    LET values == Get(result, "values", <<>>)
    IN  FirstError([i \in 1..Len(values) |-> FormatSampleErr(values[i])])

\* PrometheusBackend._format_matrix_result and LokiBackend._format_matrix_result
FormatMatrixResult(results) ==
    LET err == FirstError([i \in 1..Len(results) |-> FormatMatrixItemErr(results[i])])
    IN  IF err # None THEN Raises(err, "float")
        ELSE Returned([type |-> "matrix",
                       results |-> [i \in 1..Len(results) |-> FormatMatrixItem(results[i])]])

\* the variant in which the timestamp is taken for milliseconds
SecondsOfNanosAsMillis(ts) == Rat(IntOfStr(ts) \div 1000, 1000)

\* int(ts) / 1e9, as datetime.fromtimestamp keeps it: rounded to the microsecond
SecondsOfNanos(ts) == Rat((IntOfStr(ts) + 500) \div 1000, 1000000)

\* datetime.fromtimestamp(int(ts) / 1e9).isoformat()
IsoOfNanos(ts) == [iso |-> SecondsOfNanos(ts.v)]
IsoOfNanosErr(ts) ==
    CASE ts.t = "null" -> "TypeError"
      [] ts.t = "str" /\ ts.v \notin NanoStrings -> "ValueError"
      [] OTHER -> None

FormatEntry(value) == [timestamp |-> IsoOfNanos(value[1]), message |-> value[2]]
FormatEntryErr(value) == IsoOfNanosErr(value[1])

FormatStreamItem(result) ==
    [labels  |-> Get(result, "stream", <<>>),
     entries |-> LET values == Get(result, "values", <<>>)
                 IN  [i \in 1..Len(values) |-> FormatEntry(values[i])]]
FormatStreamItemErr(result) ==
    LET values == Get(result, "values", <<>>)
    IN  FirstError([i \in 1..Len(values) |-> FormatEntryErr(values[i])])

\* LokiBackend._format_streams_result
FormatStreamsResult(results) ==
    LET err == FirstError([i \in 1..Len(results) |-> FormatStreamItemErr(results[i])])
    IN  IF err # None THEN Raises(err, "timestamp")
        ELSE Returned([type |-> "streams",
                       results |-> [i \in 1..Len(results) |-> FormatStreamItem(results[i])]])

\* return {"error": f"Unsupported result type: {result_type}"}
UnsupportedType(result_type) ==
    Returned([error |-> <<"Unsupported result type", result_type>>])

\* PrometheusBackend.format_result
PrometheusFormatResult(result) ==
    IF Get(result, "status", None) # "success"
    THEN Raises("Exception", "Query failed")
    ELSE LET data        == Get(result, "data", <<>>)
             result_type == Get(data, "resultType", None)
         IN  CASE result_type = "vector" -> FormatVectorResult(Get(data, "result", <<>>))
               [] result_type = "matrix" -> FormatMatrixResult(Get(data, "result", <<>>))
               [] OTHER -> UnsupportedType(result_type)

\* LokiBackend.format_result
LokiFormatResult(result) ==
    IF Get(result, "status", None) # "success"
    THEN Raises("Exception", "Query failed")
    ELSE LET data        == Get(result, "data", <<>>)
             result_type == Get(data, "resultType", None)
         IN  CASE result_type = "streams" -> FormatStreamsResult(Get(data, "result", <<>>))
               [] result_type = "matrix"  -> FormatMatrixResult(Get(data, "result", <<>>))
               [] OTHER -> UnsupportedType(result_type)

(***************************************************************************)
(* DemoMetricsBackend._parse_response                                      *)
(***************************************************************************)
\* {k: v for k, v in result["metric"].items() if k != "__name__"}
LabelsOf(metric) == [k \in DOMAIN metric \ {"__name__"} |-> metric[k]]

\* one iteration of the loop over data["data"]["result"]
DemoItemErr(result_type, result) ==
    IF ~IsDict(result) THEN "TypeError"
    ELSE IF "metric" \notin DOMAIN result THEN "KeyError"
    ELSE IF result_type = "vector"
    THEN IF "value" \notin DOMAIN result THEN "KeyError"
         ELSE FloatErr(result["value"][2])
    ELSE IF "values" \notin DOMAIN result THEN "KeyError"
         ELSE FirstError([i \in 1..Len(result["values"]) |-> FormatSampleErr(result["values"][i])])

DemoItem(result_type, result) ==
    [metric |-> [name   |-> Get(result["metric"], "__name__", ""),
                 labels |-> LabelsOf(result["metric"])],
     values |-> IF result_type = "vector"
                THEN << [timestamp |-> result["value"][1],
                         value |-> FloatVal(result["value"][2])] >>
                ELSE [i \in 1..Len(result["values"]) |-> FormatSample(result["values"][i])]]

DemoParseResponse(data) ==
    IF data["status"] # "success"
    THEN Raises("ValueError", "Query failed")
    ELSE LET result_type == data["data"]["resultType"]
             results     == data["data"]["result"]
             err == FirstError([i \in 1..Len(results) |->
                                   DemoItemErr(result_type, results[i])])
         IN  IF err # None THEN Raises(err, "parse")
             ELSE Returned([type    |-> result_type,
                            results |-> [i \in 1..Len(results) |->
                                            DemoItem(result_type, results[i])]])

(***************************************************************************)
(* The payloads handed to the formatters.                                  *)
(***************************************************************************)
MaxSeries  == 2
MaxSamples == 2

SeqsUpTo(S, n) == UNION { [1..k -> S] : k \in 0..n }

Metrics == { ("__name__" :> "up") @@ ("job" :> "api"), ("job" :> "api") }

VectorValues == { JStr("1"), JStr("0.5"), JNull }
VectorItems ==
    { [metric |-> m, value |-> <<JNum(1), v>>] : m \in Metrics, v \in VectorValues }

MatrixSamples == { <<JNum(1), JStr("1")>>, <<JNum(2), JStr("0.5")>>, <<JNum(2), JNull>> }
MatrixItems ==
    { [metric |-> ("__name__" :> "up"), values |-> vs] :
        vs \in SeqsUpTo(MatrixSamples, MaxSamples) }

StreamEntries == { <<JStr("2000000000"), JStr("a")>>, <<JStr("1500000000"), JStr("b")>> }
StreamItems ==
    { [stream |-> ("app" :> "api"), values |-> vs] :
        vs \in SeqsUpTo(StreamEntries, MaxSamples) }

Success(result_type, result) ==
    [status |-> "success", data |-> [resultType |-> result_type, result |-> result]]

ErrorEnvelope == [status |-> "error", errorType |-> "bad_data", error |-> "parse error"]

VectorPayloads  == { Success("vector", r)  : r \in SeqsUpTo(VectorItems, MaxSeries) }
MatrixPayloads  == { Success("matrix", r)  : r \in SeqsUpTo(MatrixItems, MaxSeries) }
StreamsPayloads == { Success("streams", r) : r \in SeqsUpTo(StreamItems, MaxSeries) }
OtherPayloads ==
    { Success("scalar", <<JNum(1), JStr("1")>>), Success("string", <<>>), ErrorEnvelope }

Payloads == VectorPayloads \cup MatrixPayloads \cup StreamsPayloads \cup OtherPayloads

Formatters == {"prometheus", "loki", "demo"}

ParseInit ==
    /\ fmt_in \in [adapter : Formatters, payload : Payloads]
    /\ fmt_out = NoOutcome

\* formatted = backend.format_result(payload) on a PrometheusBackend
FormatPrometheus ==
    /\ fmt_in.adapter = "prometheus" /\ fmt_out = NoOutcome
    /\ fmt_out' = PrometheusFormatResult(fmt_in.payload)
    /\ UNCHANGED <<fmt_in, retryVars, adapterVars, registryVars, poolVars, edgeVars>>

\* formatted = backend.format_result(payload) on a LokiBackend
FormatLoki ==
    /\ fmt_in.adapter = "loki" /\ fmt_out = NoOutcome
    /\ fmt_out' = LokiFormatResult(fmt_in.payload)
    /\ UNCHANGED <<fmt_in, retryVars, adapterVars, registryVars, poolVars, edgeVars>>

\* self._parse_response(data) on a DemoMetricsBackend
ParseDemo ==
    /\ fmt_in.adapter = "demo" /\ fmt_out = NoOutcome
    /\ fmt_out' = DemoParseResponse(fmt_in.payload)
    /\ UNCHANGED <<fmt_in, retryVars, adapterVars, registryVars, poolVars, edgeVars>>

ParseNext ==
    \/ FormatPrometheus
    \/ FormatLoki
    \/ ParseDemo

(***************************************************************************)
(* Adapter calls: PrometheusBackend, LokiBackend and DemoMetricsBackend    *)
(* query / query_range, each an async with aiohttp.ClientSession() block   *)
(* around one session.get.                                                 *)
(***************************************************************************)
MaxCalls == 2
CallIds == 1..MaxCalls

Adapters == {"prometheus", "loki", "demo"}

\* the base_url each adapter is constructed with
BaseUrlOf(adapter) ==
    CASE adapter = "prometheus" -> "http://prometheus:9090"
      [] adapter = "loki"       -> "http://loki:3100"
      [] adapter = "demo"       -> "http://prometheus:9090"

\* f"{self.base_url}/api/v1/query" and the like
PathOf(adapter, op) ==
    CASE adapter = "loki" /\ op = "query"       -> "/loki/api/v1/query"
      [] adapter = "loki" /\ op = "query_range" -> "/loki/api/v1/query_range"
      [] adapter # "loki" /\ op = "query"       -> "/api/v1/query"
      [] adapter # "loki" /\ op = "query_range" -> "/api/v1/query_range"

\* the calls made: (method, query text)
CallArgs ==
    { [op |-> "query", query |-> "up"],
      [op |-> "query", query |-> "invalid_query{"],
      [op |-> "query_range", query |-> "up"] }

NotJson == [notjson |-> TRUE]

\* what the remote service answers
Responses ==
    { [status |-> 200, json |-> Success("vector",
                                  << [metric |-> ("__name__" :> "up") @@ ("job" :> "api"),
                                      value |-> <<JNum(1), JStr("1")>>] >>)],
      [status |-> 200, json |-> ErrorEnvelope],
      [status |-> 400, json |-> ErrorEnvelope],
      [status |-> 500, json |-> NotJson] }

\* how the transport fails: aiohttp.ClientConnectorError, asyncio.TimeoutError
TransportErrors == {"ClientError", "TimeoutError"}

IdleCall ==
    [pc |-> "idle", adapter |-> "none", op |-> "none", query |-> "",
     url |-> "", response |-> NotJson, outcome |-> NoOutcome]

AdapterInit ==
    /\ acall = [c \in CallIds |-> IdleCall]
    /\ sessions = [a \in Adapters |-> 0]
    /\ requests = 0
    /\ base_url = [a \in Adapters |-> BaseUrlOf(a)]

\* PrometheusBackend.query / query_range and LokiBackend.query / query_range
\* once the response has arrived: lines 22-25 (41-44)
StatusCheckedOutcome(resp) ==
    IF resp.status # 200
    THEN Raises("Exception", "query failed")
    ELSE Returned(resp.json)

\* DemoMetricsBackend.query / query_range once the response has arrived:
\* data = await response.json(); return self._parse_response(data)
DemoOutcome(resp) ==
    IF resp.json = NotJson
    THEN Raises("ClientError", "ContentTypeError")
    ELSE DemoParseResponse(resp.json)

AdapterOutcome(adapter, resp) ==
    IF adapter = "demo" THEN DemoOutcome(resp) ELSE StatusCheckedOutcome(resp)

\* async with aiohttp.ClientSession() as session: async with session.get(...):
\* call c of adapter a opens its session and sends its one GET request
Send(c, a, op, query) ==
    /\ acall' = [acall EXCEPT ![c] =
                    [pc |-> "awaiting", adapter |-> a, op |-> op, query |-> query,
                     url |-> <<base_url[a], PathOf(a, op)>>,
                     response |-> NotJson, outcome |-> NoOutcome]]
    /\ sessions' = [sessions EXCEPT ![a] = @ + 1]
    /\ requests' = requests + 1
    /\ UNCHANGED base_url

\* a call starts: the session is opened and the GET request is sent
StartCall(c) ==
    /\ acall[c].pc = "idle"
    /\ \E a \in Adapters, args \in CallArgs : Send(c, a, args.op, args.query)
    /\ UNCHANGED <<retryVars, parseVars, registryVars, poolVars, edgeVars>>

\* variant: the session is closed only when the call returns
FinishLeaksOnRaise(c, resp, out) ==
    /\ acall' = [acall EXCEPT ![c].pc = "done", ![c].response = resp,
                              ![c].outcome = out]
    /\ sessions' = IF out.type = "raise" THEN sessions
                   ELSE [sessions EXCEPT ![acall[c].adapter] = @ - 1]
    /\ UNCHANGED <<requests, base_url, retryVars, parseVars, registryVars, poolVars, edgeVars>>

\* variant: the calls of an adapter share one session, closed by the first to end
FinishSharedSession(c, resp, out) ==
    /\ acall' = [acall EXCEPT ![c].pc = "done", ![c].response = resp,
                              ![c].outcome =
                                  IF \E d \in DOMAIN acall :
                                        /\ d # c /\ acall[d].pc = "done"
                                        /\ acall[d].adapter = acall[c].adapter
                                  THEN Raises("RuntimeError", "Session is closed")
                                  ELSE out]
    /\ sessions' = [sessions EXCEPT ![acall[c].adapter] = @ - 1]
    /\ UNCHANGED <<requests, base_url, retryVars, parseVars, registryVars, poolVars, edgeVars>>

\* variant: a failed call sends its request once more before giving up
FinishResendsOnRaise(c, resp, out) ==
    /\ acall' = [acall EXCEPT ![c].pc = "done", ![c].response = resp,
                              ![c].outcome = out]
    /\ sessions' = [sessions EXCEPT ![acall[c].adapter] = @ - 1]
    /\ requests' = IF out.type = "raise" THEN requests + 1 ELSE requests
    /\ UNCHANGED <<base_url, retryVars, parseVars, registryVars, poolVars, edgeVars>>

\* the call ends: both async with blocks are left and the session is closed
Finish(c, resp, out) ==
    /\ acall' = [acall EXCEPT ![c].pc = "done", ![c].response = resp,
                              ![c].outcome = out]
    /\ sessions' = [sessions EXCEPT ![acall[c].adapter] = @ - 1]
    /\ UNCHANGED <<requests, base_url, retryVars, parseVars, registryVars, poolVars, edgeVars>>

\* session.get fails below HTTP
TransportFails(c) ==
    /\ acall[c].pc = "awaiting"
    /\ \E kind \in TransportErrors : Finish(c, NotJson, Raises(kind, "transport"))

\* the response arrives
Respond(c) ==
    /\ acall[c].pc = "awaiting"
    /\ \E resp \in Responses :
          Finish(c, resp, AdapterOutcome(acall[c].adapter, resp))

\* the caller cancels the call while it awaits the response
CancelQuery(c) ==
    /\ acall[c].pc = "awaiting"
    /\ Finish(c, NotJson, Raises("CancelledError", ""))

AdapterNext ==
    \/ \E c \in CallIds : StartCall(c)
    \/ \E c \in CallIds : TransportFails(c)
    \/ \E c \in CallIds : Respond(c)
    \/ \E c \in CallIds : CancelQuery(c)

(***************************************************************************)
(* ObservabilityBackendFactory, the backends it builds, and the agent's    *)
(* query tools that run on the backend.                                    *)
(***************************************************************************)
Undefined == "<undefined>"

\* settings.PROMETHEUS_URL and settings.LOKI_URL: Settings declares neither
\* field, so each exists only when the .env file supplies it (extra = "allow")
SettingsChoices ==
    { [PROMETHEUS_URL |-> p, LOKI_URL |-> l] :
        p \in {"http://prometheus:9090", Undefined},
        l \in {"http://loki:3100", "", Undefined} }

\* the backend_type and config arguments callers pass to create_backend
BackendTypes == {"prometheus", "prometheus-loki", "datadog"}
Configs ==
    { <<>>,
      ("prometheus_url" :> "http://localhost:9090"),
      ("prometheus_url" :> "http://localhost:9090") @@ ("loki_url" :> "http://localhost:3100"),
      ("loki_url" :> "") }

\* ObservabilityBackendFactory.get_available_backends(): the keys of its dict
AvailableBackends == {"prometheus", "prometheus-loki"}

\* bool(x) of an optional string
Truthy(x) == x \notin {None, ""}

\* PrometheusBackend.__init__ / LokiBackend.__init__: the error raised, or None
AdapterInitErr(env, attr, url) ==
    IF Truthy(url) THEN None
    ELSE IF env[attr] = Undefined THEN "AttributeError"
    ELSE IF ~Truthy(env[attr]) THEN "ValueError"
    ELSE None
\* self.base_url = base_url or settings.<attr>
AdapterInitUrl(env, attr, url) == IF Truthy(url) THEN url ELSE env[attr]

\* PrometheusObservabilityBackend(llm_manager, base_url)
PrometheusObservabilityBackend(env, url) ==
    LET err == AdapterInitErr(env, "PROMETHEUS_URL", url)
    IN  IF err # None THEN Raises(err, "PrometheusBackend")
        ELSE Returned([class |-> "PrometheusObservabilityBackend",
                       metrics_backend |-> [base_url |-> AdapterInitUrl(env, "PROMETHEUS_URL", url)],
                       logs_backend |-> NoBackend])

\* PrometheusLokiBackend(llm_manager, prometheus_url, loki_url)
PrometheusLokiBackend(env, prometheus_url, loki_url) ==
    LET err == AdapterInitErr(env, "PROMETHEUS_URL", prometheus_url)
    IN  IF err # None THEN Raises(err, "PrometheusBackend")
        ELSE Returned([class |-> "PrometheusLokiBackend",
                       metrics_backend |->
                           [base_url |-> AdapterInitUrl(env, "PROMETHEUS_URL", prometheus_url)],
                       logs_backend |->
                           IF Truthy(loki_url) THEN [base_url |-> loki_url] ELSE NoBackend])

\* ObservabilityBackendFactory.create_backend(backend_type, llm_manager, config)
CreateBackend(env, backend_type, config) ==
    CASE backend_type = "prometheus" ->
            IF env.PROMETHEUS_URL = Undefined
            THEN Raises("AttributeError", "PROMETHEUS_URL")
            ELSE PrometheusObservabilityBackend(
                     env, Get(config, "prometheus_url", env.PROMETHEUS_URL))
      [] backend_type = "prometheus-loki" ->
            IF env.PROMETHEUS_URL = Undefined
            THEN Raises("AttributeError", "PROMETHEUS_URL")
            ELSE IF env.LOKI_URL = Undefined
            THEN Raises("AttributeError", "LOKI_URL")
            ELSE PrometheusLokiBackend(
                     env, Get(config, "prometheus_url", env.PROMETHEUS_URL),
                     Get(config, "loki_url", env.LOKI_URL))
      [] OTHER -> Raises("ValueError", "Unsupported backend type")

\* backend.get_logs_backend()
GetLogsBackend(b) ==
    IF b.class = "PrometheusObservabilityBackend" THEN NoBackend ELSE b.logs_backend

\* the agent's tools that query the backend
Tools == {"query_metrics", "query_logs", "analyze_logs_comprehensive"}

\* the MetricsQuery / LogsQuery arguments the agent passes
ToolQueries == { [query |-> "up", time_range |-> None],
                 [query |-> "up", time_range |-> "1h"] }

RegistryInit ==
    /\ settings \in SettingsChoices
    /\ backend = NoBackend
    /\ created = NoOutcome
    /\ acall = [t \in Tools |-> IdleCall]
    /\ sessions = [a \in Adapters |-> 0]
    /\ requests = 0
    /\ base_url = [a \in Adapters |-> None]

\* backend = ObservabilityBackendFactory.create_backend(backend_type, llm_manager, config)
CreateBackendCall ==
    /\ created = NoOutcome
    /\ \E backend_type \in BackendTypes, config \in Configs :
          LET out == CreateBackend(settings, backend_type, config)
          IN  /\ created' = [backend_type |-> backend_type, config |-> config,
                              result |-> out]
              /\ backend' = IF out.type = "return" THEN out.value ELSE NoBackend
              /\ base_url' =
                    IF out.type # "return" THEN base_url
                    ELSE [base_url EXCEPT
                            !["prometheus"] = out.value.metrics_backend.base_url,
                            !["loki"] = IF out.value.logs_backend = NoBackend THEN None
                                        ELSE out.value.logs_backend.base_url]
    /\ UNCHANGED <<settings, acall, sessions, requests, retryVars, parseVars, poolVars, edgeVars>>

\* a tool call ends before any adapter call is made
ToolRaises(t, kind, text) ==
    /\ acall' = [acall EXCEPT ![t] =
                    [IdleCall EXCEPT !.pc = "done", !.outcome = Raises(kind, text)]]
    /\ UNCHANGED <<sessions, requests, base_url>>

\* the query_metrics tool: backend.get_metrics_backend().query(query.query)
QueryMetrics ==
    /\ backend # NoBackend
    /\ acall["query_metrics"].pc = "idle"
    /\ \E q \in ToolQueries : Send("query_metrics", "prometheus", "query", q.query)
    /\ UNCHANGED <<retryVars, parseVars, registryVars, poolVars, edgeVars>>

\* the query_logs tool
QueryLogs ==
    /\ backend # NoBackend
    /\ acall["query_logs"].pc = "idle"
    /\ \E q \in ToolQueries :
          LET logs_backend == GetLogsBackend(backend)
          IN  IF logs_backend = NoBackend
              THEN ToolRaises("query_logs", "ValueError", "Logs backend not available")
              ELSE Send("query_logs", "loki",
                        IF q.time_range # None THEN "query_range" ELSE "query", q.query)
    /\ UNCHANGED <<retryVars, parseVars, registryVars, poolVars, edgeVars>>

\* the analyze_logs_comprehensive tool, up to its logs query
AnalyzeLogs ==
    /\ backend # NoBackend
    /\ acall["analyze_logs_comprehensive"].pc = "idle"
    /\ \E q \in ToolQueries :
          LET logs_backend == GetLogsBackend(backend)
          IN  IF logs_backend = NoBackend
              THEN ToolRaises("analyze_logs_comprehensive", "ValueError",
                              "Logs backend not available")
              ELSE Send("analyze_logs_comprehensive", "loki", "query", q.query)
    /\ UNCHANGED <<retryVars, parseVars, registryVars, poolVars, edgeVars>>

RegistryNext ==
    \/ CreateBackendCall
    \/ QueryMetrics
    \/ QueryLogs
    \/ AnalyzeLogs
    \/ \E t \in Tools : TransportFails(t)
    \/ \E t \in Tools : Respond(t)
    \/ \E t \in Tools : CancelQuery(t)

(***************************************************************************)
(* Several calls of one function wrapped by retry_with_backoff: the        *)
(* decorator's arguments are shared by the calls, delay, last_exception,   *)
(* attempt and next_delay are locals of each wrapper call.                 *)
(***************************************************************************)
MaxWrapperCalls == 2
WrapperCallIds == 1..MaxWrapperCalls

\* the decorations explored with concurrent calls
PoolPolicies ==
    { p \in Policies : /\ p.max_retries = 2
                       /\ ~p.on_retry
                       /\ p.exceptions = {"PrometheusConnectionError"} }

\* random.uniform(0.8, 1.2): the two ends of the band
PoolJitterDraws == { Rat(4, 5), Rat(6, 5) }

\* the errors the wrapped operation raises: one retried, one not
PoolErrorKinds == {"PrometheusConnectionError", "PrometheusQueryError"}

\* the frame of a wrapper call that has not run yet
FreshLocals ==
    [pc |-> "start", attempt |-> 0, delay |-> NoDelay, next_delay |-> NoDelay,
     last_exception |-> NoException, calls |-> 0, failures |-> 0,
     sleeps |-> <<>>, jitters |-> <<>>, outcome |-> NoOutcome]

PoolInit ==
    /\ policy \in PoolPolicies
    /\ pc = "idle"
    /\ attempt = 0
    /\ delay = NoDelay
    /\ next_delay = NoDelay
    /\ last_exception = NoException
    /\ calls = 0
    /\ history = <<>>
    /\ sleeps = <<>>
    /\ jitters = <<>>
    /\ callbacks = <<>>
    /\ outcome = NoOutcome
    /\ cancelled = NotCancelled
    /\ rcall = [c \in WrapperCallIds |-> FreshLocals]

\* the head of the for loop at iteration a, on the locals l of one call
PoolLoopHead(l, a) ==
    IF InRange(a)
    THEN [l EXCEPT !.attempt = a, !.calls = @ + 1, !.pc = "calling"]
    ELSE [l EXCEPT !.pc = "done",
                   !.outcome = [type |-> "raise", exc |-> [kind |-> "RuntimeError"]]]

\* variant: delay lives in the decorator's closure, shared by every call
PoolEnterSharedDelay(c) ==
    /\ rcall[c].pc = "start"
    /\ \E d \in { policy.initial_delay } \cup
                 { rcall[o].delay : o \in { x \in WrapperCallIds : rcall[x].pc # "start" } } :
          rcall' = [rcall EXCEPT ![c] =
                       PoolLoopHead([@ EXCEPT !.delay = d,
                                              !.last_exception = NoException], 0)]
    /\ UNCHANGED <<retryVars, adapterVars, parseVars, registryVars, edgeVars>>

\* call c of the wrapper starts: lines 52-57 up to the first await func(...)
PoolEnter(c) ==
    /\ rcall[c].pc = "start"
    /\ rcall' = [rcall EXCEPT ![c] =
                    PoolLoopHead([@ EXCEPT !.delay = policy.initial_delay,
                                           !.last_exception = NoException], 0)]
    /\ UNCHANGED <<retryVars, adapterVars, parseVars, registryVars, edgeVars>>

\* await func(...) of call c returns
PoolReturns(c) ==
    /\ rcall[c].pc = "calling"
    /\ rcall' = [rcall EXCEPT ![c].pc = "done",
                              ![c].outcome = [type |-> "return",
                                              value |-> [seq |-> rcall[c].calls]]]
    /\ UNCHANGED <<retryVars, adapterVars, parseVars, registryVars, edgeVars>>

\* the except clause of call c, lines 58-95, for a caught exception e
PoolHandler(l, e, jitter) ==
    IF l.attempt = policy.max_retries
    THEN [l EXCEPT !.last_exception = e, !.failures = @ + 1, !.pc = "done",
                   !.outcome = [type |-> "raise", exc |-> RetryErrorOf(e)]]
    ELSE [l EXCEPT !.last_exception = e, !.failures = @ + 1, !.pc = "sleeping",
                   !.jitters = Append(@, jitter),
                   !.next_delay = NextDelay(l.delay, jitter),
                   !.sleeps = Append(@, NextDelay(l.delay, jitter))]

\* await func(...) of call c raises
PoolRaises(c) ==
    /\ rcall[c].pc = "calling"
    /\ \E k \in PoolErrorKinds, jitter \in PoolJitterDraws :
          LET e == [kind |-> k, seq |-> rcall[c].calls]
          IN  rcall' = [rcall EXCEPT ![c] =
                           IF Catches(policy.exceptions, e)
                           THEN PoolHandler(@, e, jitter)
                           ELSE [@ EXCEPT !.pc = "done",
                                          !.outcome = [type |-> "raise", exc |-> e]]]
    /\ UNCHANGED <<retryVars, adapterVars, parseVars, registryVars, edgeVars>>

\* await asyncio.sleep(next_delay) of call c returns: line 96, next iteration
PoolWakes(c) ==
    /\ rcall[c].pc = "sleeping"
    /\ rcall' = [rcall EXCEPT ![c] =
                    PoolLoopHead([@ EXCEPT !.delay = rcall[c].next_delay],
                                 rcall[c].attempt + 1)]
    /\ UNCHANGED <<retryVars, adapterVars, parseVars, registryVars, edgeVars>>

PoolNext ==
    \/ \E c \in WrapperCallIds : PoolEnter(c)
    \/ \E c \in WrapperCallIds : PoolReturns(c)
    \/ \E c \in WrapperCallIds : PoolRaises(c)
    \/ \E c \in WrapperCallIds : PoolWakes(c)

(***************************************************************************)
(* Range query times: app/core/backends/{prometheus,loki}.py query_range   *)
(***************************************************************************)
\* the datetimes a caller passes, as microseconds since the epoch
Instants == {0, 500000, 1000000, 1500000, 2000000}

\* datetime.timestamp(): seconds since the epoch, a float
Timestamp(dt) == Rat(dt, 1000000)

\* x * 1e9 for a float x of microsecond resolution
TimesBillion(x) == Rat(x.n * (1000000000 \div x.d), 1)

\* int(x) for a float x >= 0
IntOfFloat(x) == x.n \div x.d

\* str(n) for an integer n
StrOfInt(n) == CHOOSE str \in NanoStrings : IntOfStr(str) = n

\* params of PrometheusBackend.query_range
PrometheusRangeParams(query, start_time, end_time, step) ==
    [query |-> query,
     start |-> Timestamp(start_time),
     end   |-> Timestamp(end_time),
     step  |-> step]

\* params of LokiBackend.query_range
LokiRangeParams(query, start_time, end_time) ==
    [query |-> query,
     start |-> StrOfInt(IntOfFloat(TimesBillion(Timestamp(start_time)))),
     end   |-> StrOfInt(IntOfFloat(TimesBillion(Timestamp(end_time))))]

TimeInit ==
    \E s \in Instants, e \in Instants :
        /\ s <= e
        /\ tq = [start_time |-> s, end_time |-> e,
                 prometheus |-> NoOutcome, loki |-> NoOutcome,
                 ts |-> JNull, entry |-> NoOutcome]

\* PrometheusBackend.query_range builds its params: prometheus.py lines 33-38
BuildPrometheusParams ==
    /\ tq.prometheus = NoOutcome
    /\ tq' = [tq EXCEPT !.prometheus =
                  PrometheusRangeParams("up", tq.start_time, tq.end_time, "15s")]
    /\ UNCHANGED <<retryVars, adapterVars, parseVars, registryVars, poolVars,
                   http, mock>>

\* LokiBackend.query_range builds its params: loki.py lines 31-35
BuildLokiParams ==
    /\ tq.loki = NoOutcome
    /\ tq' = [tq EXCEPT !.loki =
                  LokiRangeParams("{app=\"api\"}", tq.start_time, tq.end_time)]
    /\ UNCHANGED <<retryVars, adapterVars, parseVars, registryVars, poolVars,
                   http, mock>>

\* _format_streams_result formats one entry [ts, message] of the answer:
\* loki.py lines 64-67
FormatOneEntry ==
    /\ tq.entry = NoOutcome
    /\ \E ts \in NanoStrings :
          tq' = [tq EXCEPT !.ts = JStr(ts),
                           !.entry = FormatEntry(<<JStr(ts), JStr("a")>>)]
    /\ UNCHANGED <<retryVars, adapterVars, parseVars, registryVars, poolVars,
                   http, mock>>

TimeNext ==
    \/ BuildPrometheusParams
    \/ BuildLokiParams
    \/ FormatOneEntry

(***************************************************************************)
(* The HTTP router: app/routers/prometheus.py, with the status codes of    *)
(* app/core/exceptions.py                                                  *)
(***************************************************************************)
\* status_code=None, the default of SherlogError.__init__
NoStatus == 0

\* the status_code each class's __init__ hands to SherlogError.__init__;
\* a class without an __init__ of its own hands on its caller's argument
InitStatus(kind, status_code) ==
    CASE kind = "ConfigurationError"        -> 500
      [] kind = "PrometheusConnectionError" -> 503
      [] kind = "PrometheusQueryError"      -> 400
      [] kind = "SlackAPIError"             -> 502
      [] kind = "LLMAPIError"               -> 502
      [] kind = "ValidationError"           -> 400
      [] kind = "RetryError"                -> 503
      [] OTHER                              -> status_code

\* self.status_code = status_code or HTTPStatus.INTERNAL_SERVER_ERROR
StatusCode(kind, status_code) ==
    IF InitStatus(kind, status_code) = NoStatus THEN 500
    ELSE InitStatus(kind, status_code)

\* the classes whose status code is the caller's to choose
OpenStatusKinds == {"SherlogError", "PrometheusError", "SlackError", "LLMError"}
FixedStatusKinds ==
    {"ConfigurationError", "PrometheusConnectionError", "PrometheusQueryError",
     "SlackAPIError", "LLMAPIError", "ValidationError", "RetryError"}
StatusArgs == {NoStatus, 400, 404, 500, 502, 503}

\* the exceptions agent.process_query can end with
SherlogErrors ==
    { [kind |-> k, text |-> "failed", status_code |-> StatusCode(k, c)] :
        k \in OpenStatusKinds, c \in StatusArgs }
    \cup { [kind |-> k, text |-> "failed", status_code |-> StatusCode(k, NoStatus)] :
            k \in FixedStatusKinds }
OtherErrors ==
    { [kind |-> k, text |-> "failed"] :
        k \in {"Exception", "RuntimeError", "ValueError", "TypeError", "KeyError",
                "ClientError", "TimeoutError", "CancelledError"} }
RouterErrors == SherlogErrors \cup OtherErrors

Endpoints == {"query", "translate", "explain"}

\* the detail prefix of each endpoint's except Exception clause
FailurePrefix(endpoint) ==
    CASE endpoint = "query"     -> "Query execution failed: "
      [] endpoint = "translate" -> "Translation failed: "
      [] endpoint = "explain"   -> "Explanation failed: "

HTTPException(status_code, detail) ==
    [type |-> "HTTPException", status_code |-> status_code, detail |-> detail]

\* the variant that answers every exception with 500
ExceptClausesAlways500(endpoint, e) ==
    IF IsSubclass(e.kind, "Exception")
    THEN HTTPException(500, <<FailurePrefix(endpoint), e.text>>)
    ELSE [type |-> "propagated", exc |-> e]

\* except SherlogError as e: ... except Exception as e: ...
ExceptClauses(endpoint, e) ==
    IF IsSubclass(e.kind, "SherlogError")
    THEN HTTPException(e.status_code, e.text)
    ELSE IF IsSubclass(e.kind, "Exception")
    THEN HTTPException(500, <<FailurePrefix(endpoint), e.text>>)
    ELSE [type |-> "propagated", exc |-> e]

RouterInit ==
    \E ep \in Endpoints, agent \in BOOLEAN :
        http = [endpoint |-> ep, agent |-> agent, pc |-> "received",
                raised |-> NoException, response |-> NoOutcome]

\* get_agent finds no agent in app.state: lines 29-34
GetAgentFails ==
    /\ http.pc = "received" /\ ~http.agent
    /\ http' = [http EXCEPT
                   !.pc = "answered",
                   !.response = HTTPException(503, "ObservabilityAgent not initialized")]
    /\ UNCHANGED <<retryVars, adapterVars, parseVars, registryVars, poolVars,
                   tq, mock>>

\* get_agent returns the agent and the endpoint awaits agent.process_query
AwaitProcessQuery ==
    /\ http.pc = "received" /\ http.agent
    /\ http' = [http EXCEPT !.pc = "awaiting"]
    /\ UNCHANGED <<retryVars, adapterVars, parseVars, registryVars, poolVars,
                   tq, mock>>

\* agent.process_query returns and the endpoint returns its response
ProcessQueryReturns ==
    /\ http.pc = "awaiting"
    /\ http' = [http EXCEPT !.pc = "answered",
                            !.response = [type |-> "response", status_code |-> 200]]
    /\ UNCHANGED <<retryVars, adapterVars, parseVars, registryVars, poolVars,
                   tq, mock>>

\* agent.process_query raises e and the endpoint's except clauses handle it
ProcessQueryRaises ==
    /\ http.pc = "awaiting"
    /\ \E e \in RouterErrors :
          http' = [http EXCEPT !.pc = "answered",
                              !.raised = e,
                              !.response = ExceptClauses(http.endpoint, e)]
    /\ UNCHANGED <<retryVars, adapterVars, parseVars, registryVars, poolVars,
                   tq, mock>>

RouterNext ==
    \/ GetAgentFails
    \/ AwaitProcessQuery
    \/ ProcessQueryReturns
    \/ ProcessQueryRaises

(***************************************************************************)
(* The metrics backend test double: tests/conftest.py MockMetricsBackend   *)
(***************************************************************************)
MaxOps == 3

\* MockMetricsBackend(config): __init__, lines 65-67
MockInit ==
    mock = [initialized |-> FALSE, log |-> <<>>, returned |-> NoOutcome]

\* one method call on the backend: what it leaves in _initialized and returns
MockCall(name, initialized, value) ==
    /\ mock # NoOutcome
    /\ Len(mock.log) < MaxOps
    /\ mock' = [initialized |-> initialized,
                log         |-> Append(mock.log, name),
                returned    |-> Returned(value)]
    /\ UNCHANGED <<retryVars, adapterVars, parseVars, registryVars, poolVars,
                   tq, http>>

\* await backend.initialize(): lines 69-70
MockInitialize == MockCall("initialize", TRUE, None)

\* the variant in which close() leaves the flag alone
MockCloseKeepsFlag == MockCall("close", mock.initialized, None)

\* await backend.close(): lines 75-76
MockClose == MockCall("close", FALSE, None)

\* await backend.health_check(): lines 72-73
MockHealthCheck == MockCall("health_check", mock.initialized, TRUE)

\* await backend.get_metric(...): lines 78-80
MockGetMetric == MockCall("get_metric", mock.initialized, Rat(42, 1))

\* await backend.list_metrics(...): lines 82-83
MockListMetrics ==
    MockCall("list_metrics", mock.initialized, <<"mock_metric_1", "mock_metric_2">>)

\* await backend.query(...): lines 85-86
MockQuery == MockCall("query", mock.initialized, [result |-> "mock_data"])

\* await backend.validate_query(...): lines 88-89
MockValidateQuery == MockCall("validate_query", mock.initialized, TRUE)

MockNext ==
    \/ MockInitialize
    \/ MockClose
    \/ MockHealthCheck
    \/ MockGetMetric
    \/ MockListMetrics
    \/ MockQuery
    \/ MockValidateQuery

\* no wrapped call is running
RetryIdle ==
    /\ policy = None
    /\ pc = "idle"
    /\ attempt = 0
    /\ delay = NoDelay
    /\ next_delay = NoDelay
    /\ last_exception = NoException
    /\ calls = 0
    /\ history = <<>>
    /\ sleeps = <<>>
    /\ jitters = <<>>
    /\ callbacks = <<>>
    /\ outcome = NoOutcome
    /\ cancelled = NotCancelled

\* no adapter has been constructed
AdapterIdle ==
    /\ acall = <<>>
    /\ sessions = <<>>
    /\ requests = 0
    /\ base_url = <<>>

ParseIdle ==
    /\ fmt_in = None
    /\ fmt_out = NoOutcome

\* create_backend has not been called
RegistryIdle ==
    /\ settings = None
    /\ backend = NoBackend
    /\ created = NoOutcome

\* no concurrent wrapper call exists
PoolIdle == rcall = <<>>

\* no range query, no HTTP request and no test double exists
EdgeIdle ==
    /\ tq = NoOutcome
    /\ http = NoOutcome
    /\ mock = NoOutcome

Init ==
    /\ RetryInit /\ AdapterIdle /\ ParseIdle /\ RegistryIdle /\ PoolIdle
    /\ EdgeIdle

Next ==
    \/ Enter
    \/ OpReturns
    \/ OpRaises
    \/ SleepReturns
    \/ CancelCall
    \/ CancelSleep

Spec == Init /\ [][Next]_vars

\* every invocation of func and every asyncio.sleep eventually completes, and a
\* call that was made eventually starts running
FairSpec ==
    /\ Spec
    /\ WF_vars(Enter)
    /\ WF_vars(OpReturns \/ OpRaises)
    /\ WF_vars(SleepReturns)

AdapterSpecInit ==
    /\ RetryIdle /\ AdapterInit /\ ParseIdle /\ RegistryIdle /\ PoolIdle
    /\ EdgeIdle

AdapterSpec == AdapterSpecInit /\ [][AdapterNext]_vars

ParseSpecInit ==
    /\ RetryIdle /\ AdapterIdle /\ ParseInit /\ RegistryIdle /\ PoolIdle
    /\ EdgeIdle

ParseSpec == ParseSpecInit /\ [][ParseNext]_vars

RegistrySpecInit ==
    /\ RetryIdle /\ RegistryInit /\ ParseIdle /\ PoolIdle
    /\ EdgeIdle

RegistrySpec == RegistrySpecInit /\ [][RegistryNext]_vars

PoolSpecInit ==
    /\ PoolInit /\ AdapterIdle /\ ParseIdle /\ RegistryIdle
    /\ EdgeIdle

PoolSpec == PoolSpecInit /\ [][PoolNext]_vars

TimeSpecInit ==
    /\ RetryIdle /\ AdapterIdle /\ ParseIdle /\ RegistryIdle /\ PoolIdle
    /\ TimeInit
    /\ http = NoOutcome
    /\ mock = NoOutcome

TimeSpec == TimeSpecInit /\ [][TimeNext]_vars

RouterSpecInit ==
    /\ RetryIdle /\ AdapterIdle /\ ParseIdle /\ RegistryIdle /\ PoolIdle
    /\ RouterInit
    /\ tq = NoOutcome
    /\ mock = NoOutcome

RouterSpec == RouterSpecInit /\ [][RouterNext]_vars

MockSpecInit ==
    /\ RetryIdle /\ AdapterIdle /\ ParseIdle /\ RegistryIdle /\ PoolIdle
    /\ MockInit
    /\ tq = NoOutcome
    /\ http = NoOutcome

MockSpec == MockSpecInit /\ [][MockNext]_vars

(***************************************************************************)
(* Properties of the retry wrapper                                         *)
(***************************************************************************)
Raised(kind) == outcome.type = "raise" /\ outcome.exc.kind = kind

\* the operation's error kinds that a policy's retryable set covers
RetryableKinds(p) ==
    IF p.exceptions = {"Exception"}
    THEN {"PrometheusConnectionError", "PrometheusQueryError", "ConfigurationError"}
    ELSE p.exceptions \cap {"PrometheusConnectionError", "PrometheusQueryError",
                            "ConfigurationError"}

\* every invocation made so far has completed by raising an error the policy retries
AlwaysRetryableFailure ==
    /\ Len(history) = calls
    /\ \A i \in 1..Len(history) :
          /\ history[i].type = "raise"
          /\ history[i].exc.kind \in RetryableKinds(policy)

\* C1: with max_retries = N >= 0 and an operation that raises a retryable error on
\* every call, a call that is not cancelled ends with RetryError after exactly N+1
\* invocations and N sleeps, and the error's attempts field is N+1.
C1_ExhaustedAfterNPlus1 ==
    (pc = "done" /\ policy.max_retries >= 0 /\ AlwaysRetryableFailure /\ cancelled = NotCancelled)
        => /\ Raised("RetryError")
           /\ calls = policy.max_retries + 1
           /\ Len(sleeps) = policy.max_retries
           /\ outcome.exc.attempts = policy.max_retries + 1

C1_Witness ==
    /\ pc = "done" /\ policy.max_retries = 3 /\ AlwaysRetryableFailure /\ cancelled = NotCancelled
    /\ Raised("RetryError") /\ calls = 4 /\ Len(sleeps) = 3 /\ outcome.exc.attempts = 4

\* C2: an error of the operation that the policy does not retry ends the call at
\* once: the wrapper raises that same error, and no sleep, callback or invocation
\* follows it (so a first-call failure means exactly one invocation).
C2_NonRetryablePropagates ==
    \A i \in 1..Len(history) :
        (history[i].type = "raise" /\ history[i].exc.kind \notin RetryableKinds(policy))
            => /\ i = Len(history)
               /\ pc = "done"
               /\ outcome = [type |-> "raise", exc |-> history[i].exc]
               /\ calls = i
               /\ Len(sleeps) = i - 1
               /\ Len(callbacks) = IF policy.on_retry THEN i - 1 ELSE 0

C2_Witness ==
    /\ pc = "done"
    /\ policy.exceptions = {"PrometheusConnectionError"}
    /\ calls = 1 /\ Len(history) = 1
    /\ history[1].type = "raise" /\ history[1].exc.kind = "PrometheusQueryError"
    /\ outcome = [type |-> "raise", exc |-> history[1].exc]

\* C3 (as claimed): under the default policy a QueryError or ConfigurationError of
\* the operation is never retried: it reaches the caller unchanged after exactly
\* one invocation.
C3_DefaultRetriesOnlyConnectionError ==
    IsDefaultPolicy(policy) =>
        \A i \in 1..Len(history) :
            (history[i].type = "raise"
             /\ history[i].exc.kind \in {"PrometheusQueryError", "ConfigurationError"})
                => /\ pc = "done"
                   /\ outcome = [type |-> "raise", exc |-> history[i].exc]
                   /\ calls = 1

\* C4: once the caller has cancelled the call (during the operation or during a
\* backoff sleep) the call has ended with CancelledError, not RetryError, and the
\* operation has not been invoked since the cancellation.
C4_CancelEndsLoop ==
    cancelled # NotCancelled
        => /\ pc = "done"
           /\ Raised("CancelledError")
           /\ calls = cancelled.calls

C4_Witness ==
    /\ cancelled # NotCancelled /\ cancelled.at = "calling"
    /\ policy.exceptions = DefaultExceptions
    /\ pc = "done" /\ Raised("CancelledError")
    /\ calls < policy.max_retries + 1

\* C5: the RetryError raised on exhaustion names the wrapped operation, counts the
\* invocations actually made, and wraps the error of the last invocation.
C5_RetryErrorCarriesLast ==
    Raised("RetryError")
        => /\ outcome.exc.operation = FuncName
           /\ outcome.exc.attempts = calls
           /\ Len(history) = calls
           /\ outcome.exc.cause = history[calls].exc
           /\ outcome.exc.cause.seq = calls

C5_Witness ==
    /\ Raised("RetryError") /\ calls = 3
    /\ outcome.exc.cause.kind = "ConfigurationError"
    /\ history[1].exc.kind = "PrometheusConnectionError"

\* the delay the i-th sleep was computed from
DelayBefore(i) == IF i = 1 THEN policy.initial_delay ELSE sleeps[i - 1]

\* C6: the i-th backoff sleep is min(delay * backoff_factor * jitter, max_delay),
\* delay being initial_delay for the first sleep and the previous sleep afterwards,
\* so no sleep exceeds max_delay.
C6_BackoffFormula ==
    /\ Len(jitters) = Len(sleeps)
    /\ \A i \in 1..Len(sleeps) :
          /\ sleeps[i] = RMin(RMul(RMul(DelayBefore(i), policy.backoff_factor), jitters[i]),
                              policy.max_delay)
          /\ RLeq(sleeps[i], policy.max_delay)
    /\ pc \in {"calling", "sleeping"} =>
          delay = (IF attempt = 0 THEN policy.initial_delay ELSE sleeps[attempt])

C6_Witness ==
    /\ Len(sleeps) >= 2
    /\ RLess(sleeps[1], policy.max_delay)
    /\ RLess(policy.initial_delay, sleeps[1])
    /\ sleeps[2] = policy.max_delay
    /\ RLess(policy.max_delay, RMul(RMul(sleeps[1], policy.backoff_factor), jitters[2]))

(***************************************************************************)
(* Properties of the adapters                                              *)
(***************************************************************************)
Failed(c) ==
    /\ acall[c].pc = "done"
    /\ acall[c].outcome.type = "raise"
    /\ acall[c].outcome.exc.kind # "CancelledError"

\* C7 (as claimed): every failure of an adapter query / query_range call is a
\* PrometheusConnectionError (timeout, connection failure, HTTP 5xx) or a
\* PrometheusQueryError (HTTP 4xx).
C7_TypedAdapterErrors ==
    \A c \in DOMAIN acall :
        Failed(c) =>
            /\ acall[c].outcome.exc.kind \in
                  {"PrometheusConnectionError", "PrometheusQueryError"}
            /\ (acall[c].response # NotJson /\ acall[c].response.status = 400)
                  => acall[c].outcome.exc.kind = "PrometheusQueryError"
            /\ (acall[c].response = NotJson \/ acall[c].response.status = 500)
                  => acall[c].outcome.exc.kind = "PrometheusConnectionError"

\* C8 (as claimed): an HTTP 200 answer whose envelope status is not "success"
\* makes the call raise a QueryError instead of returning a result.
C8_ErrorEnvelopeRaisesQueryError ==
    \A c \in DOMAIN acall :
        (/\ acall[c].pc = "done"
         /\ acall[c].response # NotJson
         /\ acall[c].response.status = 200
         /\ acall[c].response.json.status # "success")
            => /\ acall[c].outcome.type = "raise"
               /\ acall[c].outcome.exc.kind = "PrometheusQueryError"

(***************************************************************************)
(* Properties of the result formatters                                     *)
(***************************************************************************)
Formatted == fmt_out # NoOutcome

SupportedTypes(adapter) ==
    IF adapter = "loki" THEN {"streams", "matrix"} ELSE {"vector", "matrix"}

UnsupportedInput ==
    /\ fmt_in.payload.status = "success"
    /\ fmt_in.payload.data.resultType \notin SupportedTypes(fmt_in.adapter)

\* C9 (as claimed): formatting a success payload of an unsupported resultType
\* raises a QueryError and never returns a value.
C9_UnsupportedTypeRaises ==
    (Formatted /\ UnsupportedInput)
        => /\ fmt_out.type = "raise"
           /\ fmt_out.exc.kind = "PrometheusQueryError"

\* a valid instant-query payload: a success envelope of type vector whose every
\* series has a metric and a (timestamp, numeric string) value
ValidVectorInput ==
    /\ fmt_in.payload.status = "success"
    /\ fmt_in.payload.data.resultType = "vector"
    /\ \A i \in 1..Len(fmt_in.payload.data.result) :
          LET item == fmt_in.payload.data.result[i]
          IN  /\ "metric" \in DOMAIN item
              /\ "value" \in DOMAIN item
              /\ item.value[2] # JNull

\* the samples a formatted result holds: the values list of the demo model and of
\* matrix entries, the single (timestamp, value) pair of a Prometheus vector entry
SamplesOf(r) ==
    IF "values" \in DOMAIN r THEN r.values
    ELSE IF {"timestamp", "value"} \subseteq DOMAIN r
    THEN << [timestamp |-> r.timestamp, value |-> r.value] >>
    ELSE << >>

\* C10: for every valid instant-query payload the metrics adapters return a
\* response of type vector with one result per series, each holding exactly one
\* sample.
C10_InstantOneSample ==
    (Formatted /\ ValidVectorInput /\ fmt_in.adapter \in {"prometheus", "demo"})
        => /\ fmt_out.type = "return"
           /\ fmt_out.value.type = "vector"
           /\ Len(fmt_out.value.results) = Len(fmt_in.payload.data.result)
           /\ \A i \in 1..Len(fmt_out.value.results) :
                 /\ Len(SamplesOf(fmt_out.value.results[i])) = 1
                 /\ SamplesOf(fmt_out.value.results[i])[1].timestamp = JNum(1)
                 /\ SamplesOf(fmt_out.value.results[i])[1].value.t = "float"

C10_Witness ==
    /\ Formatted /\ ValidVectorInput /\ fmt_in.adapter = "demo"
    /\ Len(fmt_in.payload.data.result) = 2
    /\ fmt_out.type = "return"
    /\ Len(fmt_out.value.results) = 2
    /\ Len(fmt_out.value.results[2].values) = 1

\* the series of the payload being formatted, and the samples of one of them
PayloadSeries == fmt_in.payload.data.result
PayloadSamples(item) ==
    IF "values" \in DOMAIN item THEN item.values ELSE << item.value >>

SuccessOfType(types) ==
    /\ fmt_in.payload.status = "success"
    /\ fmt_in.payload.data.resultType \in types

\* the number a JSON timestamp denotes
TimestampOf(sample) == sample.timestamp.v

StrictlyIncreasing(samples) ==
    \A j \in 1..Len(samples) :
        \A k \in 1..Len(samples) :
            j < k => TimestampOf(samples[j]) < TimestampOf(samples[k])

\* C11 (as claimed): in every range result a metrics adapter returns, the samples
\* of each series are strictly increasing in timestamp, whatever order and
\* duplicates the payload held.
C11_RangeSamplesIncreasing ==
    (/\ Formatted /\ SuccessOfType({"matrix"})
     /\ fmt_in.adapter \in {"prometheus", "demo"}
     /\ fmt_out.type = "return")
        => \A i \in 1..Len(fmt_out.value.results) :
               StrictlyIncreasing(fmt_out.value.results[i].values)

\* no sample of the payload has a null value
AllSamplesNonNull ==
    \A i \in 1..Len(PayloadSeries) :
        \A j \in 1..Len(PayloadSamples(PayloadSeries[i])) :
            PayloadSamples(PayloadSeries[i])[j][2] # JNull

\* the samples (or log entries) of one formatted series
ItemsOf(r) == IF "entries" \in DOMAIN r THEN r.entries ELSE SamplesOf(r)

\* the j-th output item of a series stems from the j-th payload sample
SameSample(out, sample) ==
    IF "message" \in DOMAIN out
    THEN out.message = sample[2]
    ELSE out.timestamp = sample[1] /\ out.value = FloatVal(sample[2])

\* C12: a supported payload of N series whose samples are all non-null is
\* formatted into exactly N results in the payload's order, the i-th holding as
\* many samples as the i-th series, in the same order; N = 0 gives a response
\* with an empty result sequence, not an error.
C12_CardinalityPreserved ==
    (/\ Formatted /\ SuccessOfType(SupportedTypes(fmt_in.adapter))
     /\ AllSamplesNonNull)
        => /\ fmt_out.type = "return"
           /\ fmt_out.value.type = fmt_in.payload.data.resultType
           /\ Len(fmt_out.value.results) = Len(PayloadSeries)
           /\ \A i \in 1..Len(PayloadSeries) :
                 LET out == ItemsOf(fmt_out.value.results[i])
                     in  == PayloadSamples(PayloadSeries[i])
                 IN  /\ Len(out) = Len(in)
                     /\ \A j \in 1..Len(in) : SameSample(out[j], in[j])

C12_Witness ==
    /\ Formatted /\ SuccessOfType({"matrix"}) /\ AllSamplesNonNull
    /\ fmt_in.adapter = "prometheus"
    /\ Len(PayloadSeries) = 2
    /\ Len(PayloadSeries[1].values) = 2 /\ Len(PayloadSeries[2].values) = 1
    /\ fmt_out.type = "return"
    /\ Len(fmt_out.value.results) = 2
    /\ Len(fmt_out.value.results[1].values) = 2
    /\ Len(fmt_out.value.results[2].values) = 1

C12_WitnessEmpty ==
    /\ Formatted /\ SuccessOfType({"streams"}) /\ fmt_in.adapter = "loki"
    /\ PayloadSeries = <<>>
    /\ fmt_out = Returned([type |-> "streams", results |-> <<>>])

\* the payload samples of a series that carry a value
RECURSIVE NonNullOf(_)
NonNullOf(samples) ==
    IF samples = <<>> THEN <<>>
    ELSE IF Head(samples)[2] = JNull THEN NonNullOf(Tail(samples))
    ELSE <<Head(samples)>> \o NonNullOf(Tail(samples))

\* C13 (as claimed): a sample whose value is null is left out of the result:
\* formatting still succeeds, the other samples are kept in order, and no sample
\* of the output is null or NaN.
C13_NullSamplesDropped ==
    (/\ Formatted /\ SuccessOfType({"vector", "matrix"})
     /\ fmt_in.adapter \in {"prometheus", "demo"})
        => /\ fmt_out.type = "return"
           /\ Len(fmt_out.value.results) = Len(PayloadSeries)
           /\ \A i \in 1..Len(PayloadSeries) :
                 LET out  == SamplesOf(fmt_out.value.results[i])
                     kept == NonNullOf(PayloadSamples(PayloadSeries[i]))
                 IN  /\ Len(out) = Len(kept)
                     /\ \A j \in 1..Len(kept) :
                           /\ out[j].value # JNull
                           /\ out[j].value # [t |-> "float", v |-> NaN]
                           /\ SameSample(out[j], kept[j])

\* the series name and the label mapping a formatted result carries
SeriesNameOf(r) == IF "name" \in DOMAIN r.metric THEN r.metric.name ELSE None
LabelSetOf(r) == IF "labels" \in DOMAIN r.metric THEN r.metric.labels ELSE r.metric

\* C14 (as claimed): the name of a formatted series is the value of the payload's
\* __name__ label and its label set is the remaining labels, never holding
\* __name__ itself.
C14_NameSplitFromLabels ==
    (/\ Formatted /\ SuccessOfType({"vector"}) /\ AllSamplesNonNull
     /\ fmt_in.adapter \in {"prometheus", "demo"}
     /\ fmt_out.type = "return")
        => \A i \in 1..Len(PayloadSeries) :
               LET metric == PayloadSeries[i].metric
                   r      == fmt_out.value.results[i]
               IN  "__name__" \in DOMAIN metric
                      => /\ SeriesNameOf(r) = metric["__name__"]
                         /\ "__name__" \notin DOMAIN LabelSetOf(r)
                         /\ LabelSetOf(r) = LabelsOf(metric)

(***************************************************************************)
(* Properties of the backend registry and the agent's tools                *)
(***************************************************************************)
LogsTools == {"query_logs", "analyze_logs_comprehensive"}

\* create_backend returned a backend that was given no logs URL
BuiltWithoutLogsUrl ==
    /\ created # NoOutcome
    /\ created.result.type = "return"
    /\ \/ created.backend_type = "prometheus"
       \/ Get(created.config, "loki_url", settings.LOKI_URL) = ""

\* C15 (as claimed): a backend built without a logs URL returns None from its
\* logs accessor, and every logs tool called on it fails with a
\* ConfigurationError without issuing a request.
C15_NoLogsMeansConfigurationError ==
    BuiltWithoutLogsUrl
        => /\ GetLogsBackend(backend) = NoBackend
           /\ \A t \in LogsTools :
                 acall[t].pc # "idle"
                    => /\ acall[t].pc = "done"
                       /\ acall[t].url = ""
                       /\ acall[t].outcome.type = "raise"
                       /\ acall[t].outcome.exc.kind = "ConfigurationError"

\* C16 (as claimed): create_backend returns a backend for exactly the kinds
\* get_available_backends lists; any other kind raises a ConfigurationError and
\* no backend is built.
C16_RegistryKinds ==
    created # NoOutcome
        => /\ created.backend_type \in AvailableBackends
                 => created.result.type = "return" /\ backend = created.result.value
           /\ created.backend_type \notin AvailableBackends
                 => /\ created.result.type = "raise"
                    /\ created.result.exc.kind = "ConfigurationError"
                    /\ backend = NoBackend

\* the adapter calls started so far, and those still awaiting their response
StartedCalls == { c \in DOMAIN acall : acall[c].adapter # "none" }
InFlight(a) == { c \in DOMAIN acall : acall[c].pc = "awaiting" /\ acall[c].adapter = a }

\* C17: at every point the number of sessions an adapter holds open equals the
\* number of its calls in flight: a call's session is released when the call
\* returns, raises or is cancelled.
C17_SessionsEqualInFlight ==
    \A a \in Adapters : sessions[a] = Cardinality(InFlight(a))

C17_Witness ==
    /\ acall[1].pc = "done" /\ acall[1].adapter = "loki"
    /\ acall[1].outcome.type = "raise" /\ acall[1].outcome.exc.kind = "CancelledError"
    /\ acall[2].pc = "awaiting" /\ acall[2].adapter = "loki"
    /\ sessions["loki"] = 1

\* a call that has ended with an HTTP response
Answered(c) == acall[c].pc = "done" /\ acall[c].response # NotJson

\* C18: under every interleaving of calls a call's request is built from the
\* adapter's base URL as constructed and the call's own arguments, two calls of
\* one adapter with the same arguments and the same response end alike, and the
\* adapter's base URL is never changed.
C18_CallsIndependent ==
    /\ base_url = [a \in Adapters |-> BaseUrlOf(a)]
    /\ \A c \in StartedCalls :
          acall[c].url = <<BaseUrlOf(acall[c].adapter), PathOf(acall[c].adapter, acall[c].op)>>
    /\ \A c \in DOMAIN acall : \A d \in DOMAIN acall :
          (/\ Answered(c) /\ Answered(d)
           /\ acall[c].adapter = acall[d].adapter
           /\ acall[c].op = acall[d].op /\ acall[c].query = acall[d].query
           /\ acall[c].response = acall[d].response)
              => acall[c].outcome = acall[d].outcome

C18_Witness ==
    /\ Answered(1) /\ Answered(2)
    /\ acall[1].adapter = "prometheus" /\ acall[2].adapter = "prometheus"
    /\ acall[1].op = acall[2].op /\ acall[1].query = acall[2].query
    /\ acall[1].response = acall[2].response
    /\ acall[1].response.status = 200
    /\ acall[1].outcome.type = "return" /\ acall[2].outcome = acall[1].outcome
    /\ base_url["prometheus"] = BaseUrlOf("prometheus")

\* C20: the number of HTTP requests issued equals the number of adapter calls
\* started: building a backend through the factory issues none, a tool that
\* fails before its adapter call issues none, and each adapter call issues
\* exactly one, also when it fails.
C20_OneRequestPerCall ==
    /\ requests = Cardinality(StartedCalls)
    /\ (\A t \in DOMAIN acall : acall[t].pc = "idle") => requests = 0

C20_Witness ==
    /\ created # NoOutcome /\ created.result.type = "return"
    /\ acall["query_metrics"].pc = "done"
    /\ acall["query_metrics"].outcome.type = "raise"
    /\ acall["query_metrics"].outcome.exc.kind = "TimeoutError"
    /\ acall["query_logs"].pc = "done" /\ acall["query_logs"].url = ""
    /\ acall["analyze_logs_comprehensive"].pc = "idle"
    /\ requests = 1

(***************************************************************************)
(* Properties of concurrent wrapper calls                                  *)
(***************************************************************************)
\* the delay the i-th sleep of call c was computed from
PoolDelayBefore(c, i) ==
    IF i = 1 THEN policy.initial_delay ELSE rcall[c].sleeps[i - 1]

\* C19: the retry state is private to each call of a wrapped function: every
\* call starts from initial_delay and attempt 0, each of its sleeps is computed
\* from its own previous sleep, it invokes the function once more than it has
\* slept, and it is exhausted only by max_retries + 1 failures of its own,
\* whatever the other calls have done meanwhile.
C19_RetryStatePerCall ==
    \A c \in DOMAIN rcall :
        LET l == rcall[c]
        IN  /\ l.pc = "start" => l.calls = 0 /\ l.sleeps = <<>>
            /\ l.pc \in {"calling", "sleeping"} =>
                  /\ l.attempt = l.calls - 1
                  /\ l.delay = (IF l.attempt = 0 THEN policy.initial_delay
                                ELSE l.sleeps[l.attempt])
            /\ Len(l.sleeps) = Len(l.jitters)
            /\ \A i \in 1..Len(l.sleeps) :
                  l.sleeps[i] = RMin(RMul(RMul(PoolDelayBefore(c, i), policy.backoff_factor),
                                          l.jitters[i]),
                                     policy.max_delay)
            /\ l.pc # "start" =>
                  l.calls = Len(l.sleeps) + (IF l.pc = "sleeping" THEN 0 ELSE 1)
            /\ (l.outcome.type = "raise" /\ l.outcome.exc.kind = "RetryError")
                  => /\ l.failures = policy.max_retries + 1
                     /\ l.calls = policy.max_retries + 1

C19_Witness ==
    /\ rcall[1].pc = "done"
    /\ rcall[1].outcome.type = "raise" /\ rcall[1].outcome.exc.kind = "RetryError"
    /\ Len(rcall[1].sleeps) = 2
    /\ rcall[2].pc = "sleeping" /\ rcall[2].calls = 1
    /\ RLess(rcall[2].sleeps[1], rcall[1].sleeps[2])

(***************************************************************************)
(* Further properties of the retry wrapper                                 *)
(***************************************************************************)
\* C24 (as claimed): for every policy the call never falls out of the retry
\* loop: it never raises RuntimeError, it invokes the operation at least once,
\* and it ends only by returning the operation's result, by propagating an error
\* the policy does not retry (a cancellation included), or by raising RetryError.
C24_NeverFallsOutOfLoop ==
    pc = "done"
        => /\ ~Raised("RuntimeError")
           /\ calls >= 1
           /\ \/ outcome.type = "return"
              \/ Raised("RetryError")
              \/ Raised("CancelledError")
              \/ outcome.type = "raise" /\ outcome.exc.kind \in OpErrorKinds \ RetryableKinds(policy)

\* C25: once an invocation of the operation has returned, all earlier ones having
\* failed with retryable errors, the call has ended returning that invocation's
\* result: with it being the k-th, after exactly k invocations and k-1 sleeps,
\* k <= max_retries + 1, with no RetryError and no invocation after it.
C25_SucceedsOnKth ==
    \A k \in 1..Len(history) :
        history[k].type = "return"
            => /\ k = Len(history)
               /\ \A i \in 1..(k - 1) :
                     history[i].type = "raise" /\ history[i].exc.kind \in RetryableKinds(policy)
               /\ pc = "done"
               /\ outcome = [type |-> "return", value |-> [seq |-> k]]
               /\ calls = k
               /\ Len(sleeps) = k - 1
               /\ k <= policy.max_retries + 1

C25_Witness ==
    /\ pc = "done" /\ policy.max_retries = 3
    /\ Len(history) = 4 /\ history[4].type = "return"
    /\ outcome = [type |-> "return", value |-> [seq |-> 4]]
    /\ calls = 4 /\ Len(sleeps) = 3

C27_FirstSleepIsInitialDelay ==
    Len(sleeps) >= 1 => sleeps[1] = RMin(policy.initial_delay, policy.max_delay)

\* max_retries as a count: a negative budget allows no retry
RetryBudget == IF policy.max_retries < 0 THEN 0 ELSE policy.max_retries

\* C28: provided every invocation and every sleep eventually completes, every
\* call eventually ends, and at no point has it invoked the operation more than
\* max_retries + 1 times or slept more than max_retries times.
C28_Terminates ==
    /\ [](calls <= policy.max_retries + 1 /\ Len(sleeps) <= RetryBudget)
    /\ <>(pc = "done")

C28_Witness ==
    /\ pc = "done" /\ policy.max_retries = 3
    /\ calls = 4 /\ Len(sleeps) = 3
    /\ Raised("RetryError")

\* C29: when backoff_factor * 0.8 >= 1 the sleeps of a call never decrease, and
\* once a sleep equals max_delay every later sleep equals max_delay.
C29_SleepsMonotone ==
    RLeq(Rat(1, 1), RMul(policy.backoff_factor, Rat(4, 5)))
        => \A i \in 1..Len(sleeps) :
               \A j \in 1..Len(sleeps) :
                   i < j => /\ RLeq(sleeps[i], sleeps[j])
                            /\ sleeps[i] = policy.max_delay => sleeps[j] = policy.max_delay

C29_Witness ==
    /\ RLeq(Rat(1, 1), RMul(policy.backoff_factor, Rat(4, 5)))
    /\ Len(sleeps) = 3
    /\ RLess(sleeps[1], sleeps[2])
    /\ sleeps[2] = policy.max_delay
    /\ sleeps[3] = policy.max_delay

(***************************************************************************)
(* Properties of the range query times                                     *)
(***************************************************************************)
WholeSecond(dt) == dt % 1000000 = 0

\* a float of seconds, in microseconds
MicrosOf(x) == x.n * (1000000 \div x.d)

\* the parsed time of a nanosecond timestamp: within a microsecond of it, and
\* exactly it when the timestamp is a whole number of microseconds
ParsedFrom(x, ns) ==
    /\ 1000000 % x.d = 0
    /\ IF ns % 1000 = 0 THEN MicrosOf(x) = ns \div 1000
       ELSE MicrosOf(x) \in {ns \div 1000, (ns \div 1000) + 1}

C21_WitnessRounded ==
    /\ tq.entry # NoOutcome /\ tq.ts = JStr("1000000600")
    /\ tq.entry.timestamp.iso = Rat(1000001, 1000000)

(***************************************************************************)
(* Properties of the log stream order                                      *)
(***************************************************************************)
Ascending(entries) ==
    \A j \in 1..Len(entries) :
        \A k \in 1..Len(entries) :
            j < k => RLeq(entries[j].timestamp.iso, entries[k].timestamp.iso)

\* C22 (as claimed): in every log stream the logs adapter produces, the
\* entries are in ascending order of timestamp, whatever order the backend
\* returned them in.
C22_EntriesAscending ==
    (fmt_in.adapter = "loki" /\ SuccessOfType({"streams"})
        /\ fmt_out.type = "return") =>
        \A i \in 1..Len(fmt_out.value.results) :
            Ascending(fmt_out.value.results[i].entries)

(***************************************************************************)
(* Properties of the HTTP router                                           *)
(***************************************************************************)
Typed(e) == IsSubclass(e.kind, "SherlogError")

\* the status the claim fixes for an error kind; 0 where it fixes none
ClaimedStatus(kind) ==
    CASE kind = "PrometheusConnectionError" -> 503
      [] kind = "RetryError"                -> 503
      [] kind = "PrometheusQueryError"      -> 400
      [] kind = "ConfigurationError"        -> 500
      [] OTHER                              -> 0

\* C23: connection errors and retry exhaustion carry status 503, query errors
\* 400 and configuration errors 500; an endpoint whose request fails with a
\* typed error answers with exactly that error's status code, and with 500
\* when it fails with any other exception.
C23_StatusOfErrorKind ==
    (http.pc = "answered" /\ http.raised # NoException
        /\ IsSubclass(http.raised.kind, "Exception")) =>
        /\ http.response.type = "HTTPException"
        /\ Typed(http.raised) =>
              /\ http.response.status_code = http.raised.status_code
              /\ ClaimedStatus(http.raised.kind) # 0 =>
                    http.raised.status_code = ClaimedStatus(http.raised.kind)
        /\ ~Typed(http.raised) => http.response.status_code = 500

C23_Witness ==
    /\ http.pc = "answered"
    /\ http.raised # NoException
    /\ http.raised.kind = "PrometheusQueryError"
    /\ http.response.status_code = 400

\* the same, for an exception that is no SherlogError
C23_WitnessUntyped ==
    /\ http.pc = "answered"
    /\ http.raised # NoException
    /\ http.raised.kind = "KeyError"
    /\ http.response.status_code = 500

(***************************************************************************)
(* Properties of the metrics backend test double                           *)
(***************************************************************************)
LifecycleCalls(log) == { i \in 1..Len(log) : log[i] \in {"initialize", "close"} }

\* the most recent initialize() or close() call, "none" when there is none
LastLifecycle(log) ==
    IF LifecycleCalls(log) = {} THEN "none"
    ELSE log[CHOOSE i \in LifecycleCalls(log) :
                 \A j \in LifecycleCalls(log) : j <= i]

\* C30: a metrics backend is uninitialized when created, and after any
\* sequence of calls its initialized flag is true exactly when the most
\* recent initialize() or close() call was initialize(); query,
\* validate_query, health_check and the other methods leave the flag alone.
C30_FlagFollowsLifecycle ==
    mock.initialized <=> LastLifecycle(mock.log) = "initialize"

C30_Witness ==
    /\ mock.log = <<"close", "initialize", "health_check">>
    /\ mock.initialized

\* the same, after a close() that is followed by a query
C30_WitnessClosed ==
    /\ mock.log = <<"initialize", "close", "query">>
    /\ ~mock.initialized

====
